---------------------------- MODULE Spec2Model ----------------------------
(***************************************************************************)
(* Leaderboard (src/src/Leaderboard.ts): a leaderboard kept in one Redis   *)
(* sorted set.  The model holds the sorted set stored under the            *)
(* leaderboard's name, the instance's options, the MULTI/EXEC transaction  *)
(* in flight and the last invocation of a caller's callback.               *)
(***************************************************************************)
EXTENDS Integers, Sequences, FiniteSets, TLC

(***************************************************************************)
(* Bounds of the model.                                                    *)
(***************************************************************************)
\* page sizes passed as arguments or options range over 1..MaxPageSize
MaxPageSize == 2

Members == {"A", "B", "C"}
Scores == {10, 20, 30}

\* byte order of the member names, the sorted set's tie-break
MemberOrd(m) == CASE m = "A" -> 1 [] m = "B" -> 2 [] m = "C" -> 3

(***************************************************************************)
(* Program constants.                                                      *)
(***************************************************************************)
Ascending == 0
Descending == 1
DEFAULT_PAGE_SIZE == 50
DEFAULT_SORT_ORDER == Ascending

(***************************************************************************)
(* JavaScript values, tagged by their type.                                *)
(***************************************************************************)
Num(n) == [t |-> "number", n |-> n]
Str(s) == [t |-> "string", s |-> s]
Null == [t |-> "null"]
Undefined == [t |-> "undefined"]
NaN == [t |-> "NaN"]
Infinity == [t |-> "Infinity"]
NegInfinity == [t |-> "-Infinity"]
RankWithScore(r, s) == [t |-> "object", rank |-> r, score |-> s]
\* the error object a failed store call hands to its callback
StoreError == [t |-> "error"]

IsNum(v) == v.t = "number"
\* x == null and x != null of JavaScript: null and undefined are both == null
LooseNull(v) == v.t \in {"null", "undefined"}

Digit == <<"0", "1", "2", "3", "4", "5", "6", "7", "8", "9">>

RECURSIVE Digits(_)
Digits(n) == IF n < 10 THEN <<Digit[n + 1]>>
             ELSE Digits(n \div 10) \o <<Digit[(n % 10) + 1]>>

\* the decimal text of an integer score, as the store replies it
FormatScore(n) == IF n < 0 THEN <<"-">> \o Digits(-n) ELSE Digits(n)

DigitValue(c) == CHOOSE d \in 0..9 : Digit[d + 1] = c
IsDigit(c) == \E d \in 0..9 : Digit[d + 1] = c

RECURSIVE ParseDigits(_, _, _)
\* the value of the longest prefix of digits of s, from acc; seen: a digit was read
ParseDigits(s, acc, seen) ==
    IF s # <<>> /\ IsDigit(Head(s))
    THEN ParseDigits(Tail(s), acc * 10 + DigitValue(Head(s)), TRUE)
    ELSE IF seen THEN Num(acc) ELSE NaN

Negate(v) == IF IsNum(v) THEN Num(-v.n) ELSE v

\* the text parseFloat reads: String(v)
ToText(v) == CASE v.t = "string" -> v.s
               [] v.t = "number" -> FormatScore(v.n)
               [] v.t = "null" -> <<"n", "u", "l", "l">>
               [] OTHER -> <<"u", "n", "d", "e", "f", "i", "n", "e", "d">>

\* parseFloat(v): the number at the head of String(v), NaN when there is none
parseFloat(v) ==
    LET s == ToText(v) IN
    IF s # <<>> /\ Head(s) = "-" THEN Negate(ParseDigits(Tail(s), 0, FALSE))
    ELSE ParseDigits(s, 0, FALSE)

\* v + 1
PlusOne(v) == CASE v.t = "number" -> Num(v.n + 1)
                [] v.t = "null" -> Num(1)
                [] OTHER -> NaN

\* the ceiling of a / b, b # 0
CeilDiv(a, b) == IF b > 0 THEN -((-a) \div b) ELSE -(a \div (-b))

\* Math.ceil(a / b)
MathCeilDiv(a, b) ==
    IF ~(IsNum(a) /\ IsNum(b)) THEN NaN
    ELSE IF b.n = 0
         THEN (IF a.n = 0 THEN NaN ELSE IF a.n > 0 THEN Infinity ELSE NegInfinity)
         ELSE Num(CeilDiv(a.n, b.n))

(***************************************************************************)
(* The sorted set: a sequence of entries [member, score] in ascending      *)
(* order of score, equal scores in byte order of the member.               *)
(***************************************************************************)
Entry(m, s) == [member |-> m, score |-> s]

Before(e, f) == \/ e.score < f.score
                \/ e.score = f.score /\ MemberOrd(e.member) < MemberOrd(f.member)

IsSorted(z) == \A i \in 1..Len(z) : \A j \in 1..Len(z) : i < j => Before(z[i], z[j])

Has(z, m) == \E i \in 1..Len(z) : z[i].member = m
IndexOf(z, m) == CHOOSE i \in 1..Len(z) : z[i].member = m
Without(z, m) == SelectSeq(z, LAMBDA e : e.member # m)

\* z with e put at its place in the order
Insert(z, e) == LET k == Cardinality({i \in 1..Len(z) : Before(z[i], e)})
                IN SubSeq(z, 1, k) \o <<e>> \o SubSeq(z, k + 1, Len(z))

\* ZADD that keeps the member's old entry beside the new one
ZAddKeepOld(z, s, m) == Insert(z, Entry(m, s))

\* ZADD key score member: the member's score is set, its old entry replaced
ZAdd(z, s, m) == Insert(Without(z, m), Entry(m, s))
ZAddReply(z, s, m) == IF Has(z, m) THEN Num(0) ELSE Num(1)

\* ZREM key member
ZRem(z, m) == Without(z, m)
\* ZREM that replies 1 whether or not the member was there
ZRemReplyOne(z, m) == Num(1)

ZRemReply(z, m) == IF Has(z, m) THEN Num(1) ELSE Num(0)

\* DEL that drops the first member only
DelFirst(z) == IF z = <<>> THEN z ELSE Tail(z)

\* DEL key: a sorted set without members is no key
Del(z) == <<>>
DelReply(z) == IF z # <<>> THEN Num(1) ELSE Num(0)

\* ZCARD that counts the distinct scores, not the members
ZCardDistinctScores(z) == Num(Cardinality({z[i].score : i \in 1..Len(z)}))

\* ZCARD key
ZCard(z) == Num(Len(z))

\* ZCOUNT key min max, bounds inclusive
ZCount(z, min, max) ==
    Num(Cardinality({i \in 1..Len(z) : min <= z[i].score /\ z[i].score <= max}))

\* ZRANK that replies the 1-based index
ZRankOneBased(z, m) == IF Has(z, m) THEN Num(IndexOf(z, m)) ELSE Null

\* ZRANK key member: the 0-based index in ascending order, nil when absent
ZRank(z, m) == IF Has(z, m) THEN Num(IndexOf(z, m) - 1) ELSE Null

\* ZREVRANK key member: the 0-based index in descending order, nil when absent
ZRevRank(z, m) == IF Has(z, m) THEN Num(Len(z) - IndexOf(z, m)) ELSE Null

\* ZSCORE key member: the score as text, nil when absent
ZScore(z, m) == IF Has(z, m) THEN Str(FormatScore(z[IndexOf(z, m)].score)) ELSE Null

\* what a store call hands to its callback: (error, reply)
Reply(fail, value) == IF fail THEN [error |-> StoreError, result |-> Undefined]
                      ELSE [error |-> Null, result |-> value]

(***************************************************************************)
(* The operations of Leaderboard: what each hands to the caller's callback *)
(* for a sorted set z, and fail: the store answers the call with an error. *)
(***************************************************************************)
Callback(e, r) == [kind |-> "callback", error |-> e, result |-> r]
\* an exception raised in the store's reply handler: the callback is not invoked
Thrown == [kind |-> "throw"]

\* !v
Falsy(v) == v.t \in {"null", "undefined", "NaN"} \/ (IsNum(v) /\ v.n = 0)

\* the constructor's defaulting of leaderboardOptions.pageSize
ConstructPageSize(opt) ==
    IF Falsy(opt) \/ (IsNum(opt) /\ opt.n < 0) THEN DEFAULT_PAGE_SIZE ELSE opt.n

\* the constructor's defaulting of leaderboardOptions.sortOrder
ConstructSortOrder(opt) == IF Falsy(opt) THEN DEFAULT_SORT_ORDER ELSE opt.n

\* the first parameter of pageCount and the second of getPageFor when the page
\* size is left out: the callback
Omitted == [t |-> "function"]

\* the configured page size whatever is passed
EffectivePageSizeConfigured(param, configured) == Num(configured)

\* the page size an overloaded call works with
EffectivePageSize(param, configured) ==
    IF param.t = "function" THEN Num(configured) ELSE param

deleteLeaderboard(z, fail) ==
    LET r == Reply(fail, DelReply(z)) IN Callback(r.error, r.result)

rankMember(z, m, s, fail) ==
    LET r == Reply(fail, ZAddReply(z, s, m)) IN Callback(r.error, r.result)

removeMemember(z, m, fail) ==
    LET r == Reply(fail, ZRemReply(z, m)) IN Callback(r.error, r.result)

memberCount(z, fail) ==
    LET r == Reply(fail, ZCard(z)) IN Callback(r.error, r.result)

memberCountInRange(z, min, max, fail) ==
    LET r == Reply(fail, ZCount(z, min, max)) IN Callback(r.error, r.result)

pageCount(z, param, configured, fail) ==
    LET r == Reply(fail, ZCard(z))
    IN Callback(r.error, MathCeilDiv(r.result, EffectivePageSize(param, configured)))

\* the rank primitive of the configured order itself
RankCommandConfigured(order) == IF order = Descending THEN "zrevrank" ELSE "zrank"

\* the rank primitive getRankFor and getRankWithScoreFor call
RankCommand(order) == IF order = Descending THEN "zrank" ELSE "zrevrank"

\* one command of the store on z
Execute(z, c) == CASE c.cmd = "zrank" -> ZRank(z, c.member)
                   [] c.cmd = "zrevrank" -> ZRevRank(z, c.member)
                   [] c.cmd = "zscore" -> ZScore(z, c.member)

Command(c, m) == [cmd |-> c, member |-> m]

\* getRankFor without the test for a nil reply
getRankForUnchecked(z, order, m, fail) ==
    LET r == Reply(fail, Execute(z, Command(RankCommand(order), m)))
    IN Callback(r.error, PlusOne(r.result))

getRankFor(z, order, m, fail) ==
    LET r == Reply(fail, Execute(z, Command(RankCommand(order), m)))
    IN IF ~LooseNull(r.result) THEN Callback(r.error, PlusOne(r.result))
       ELSE Callback(Null, Null)

getScoreFor(z, m, fail) ==
    LET r == Reply(fail, Execute(z, Command("zscore", m)))
    IN IF LooseNull(r.error) THEN Callback(r.error, parseFloat(r.result))
       ELSE Callback(Null, Null)

\* the commands getRankWithScoreFor queues in its transaction
RankWithScoreQueue(order, m) == <<Command("zscore", m), Command(RankCommand(order), m)>>

\* getRankWithScoreFor's response passing the batch error on
RankWithScoreResponsePassing(error, replies) ==
    IF ~LooseNull(error) THEN Callback(error, Null)
    ELSE Callback(error, RankWithScore(PlusOne(replies[2]), replies[1]))

\* getRankWithScoreFor's response to exec's (error, replies)
RankWithScoreResponse(error, replies) ==
    IF ~LooseNull(error) THEN Callback(Null, Null)
    ELSE Callback(error, RankWithScore(PlusOne(replies[2]), replies[1]))

\* the command getPageFor queues in its transaction
PageQueue(m) == <<Command("zrank", m)>>

\* getPageFor's handler adding 1 to a nil rank too
PageResponseUnchecked(error, replies, pageSize) ==
    IF ~LooseNull(error) THEN Thrown
    ELSE Callback(error, MathCeilDiv(PlusOne(replies[1]), pageSize))

\* getPageFor's handler of exec's (error, replies); replies are undefined on error
PageResponse(error, replies, pageSize) ==
    IF ~LooseNull(error) THEN Thrown
    ELSE LET rank == IF LooseNull(replies[1]) THEN Num(0) ELSE PlusOne(replies[1])
         IN Callback(error, MathCeilDiv(rank, pageSize))

\* the caller's callback is never invoked and nothing is raised
NoResponse == [kind |-> "none"]

\* getTop: the body is empty, no store call is made
getTop(z, offset, count) == NoResponse

\* how many of the queued commands EXEC runs on the store as one step: all
BatchSize(queue) == Len(queue)

(***************************************************************************)
(* The state.                                                              *)
(***************************************************************************)
VARIABLES
    constructed, \* new Leaderboard(...) returned an instance
    zset,       \* the sorted set stored under leaderboardName
    pageSize,   \* leaderboardOptions.pageSize
    sortOrder,  \* leaderboardOptions.sortOrder
    tx,         \* the transaction (client.multi()) in flight
    last,       \* the observed caller's last call answered: operation, arguments,
                \* outcome, and failed: the store answered it with an error
                \* (deleteLeaderboard: and before, the members there were)
    ranked,     \* history: the entries ranked and not removed since
    torn        \* history: a writer's step fell between two reads of tx

vars == <<constructed, zset, pageSize, sortOrder, tx, last, ranked, torn>>

NoTx == [op |-> "none"]
NoCall == [op |-> "none"]

\* the values callers pass
PageSizeParams == {Omitted} \cup {Num(p) : p \in 0..MaxPageSize}
PageSizeOptions == {Undefined} \cup {Num(p) : p \in -1..MaxPageSize}
SortOrderOptions == {Undefined, Num(Ascending), Num(Descending)}
PageSizeValues == -1..MaxPageSize
\* the score bounds passed to memberCountInRange
RangeBounds == {10, 30}
\* the offsets and counts passed to getTop
TopOffsets == {Omitted, Num(0), Num(1)}
TopCounts == {Num(1), Num(2)}

\* the arguments of new Leaderboard(leaderboardName, leaderboardOptions, redisOptions)
Options(p, o) == [t |-> "object", pageSize |-> p, sortOrder |-> o]
OptionsArgs ==
    {Undefined} \cup {Options(p, o) : p \in PageSizeOptions, o \in SortOrderOptions}
RedisArgs == {Undefined, [t |-> "object"]}

\* the constructor returns: it reads redisOptions.host and leaderboardOptions.pageSize,
\* and reading a property of undefined raises a TypeError
Constructs(options, redis) == redis.t = "object" /\ options.t = "object"

\* new Leaderboard(...) returned the instance
Constructed == [kind |-> "instance"]

\* The observed caller has one call outstanding at a time.  While its transaction
\* is in flight the steps taken are those of other callers, whose callbacks are
\* theirs: last keeps waiting for the transaction's outcome.
Observed(call) == IF tx.op = "none" THEN call ELSE last

\* some reads of tx are done and some are still queued
Partial(t) == t.op # "none" /\ t.replies # <<>> /\ t.queue # <<>>

\* Where the constructor raises there is no instance: its fields are never read
\* and no operation is ever called.
Init ==
    \E options \in OptionsArgs, redis \in RedisArgs :
        /\ constructed = Constructs(options, redis)
        /\ pageSize = IF constructed THEN ConstructPageSize(options.pageSize) ELSE 0
        /\ sortOrder = IF constructed THEN ConstructSortOrder(options.sortOrder)
                       ELSE DEFAULT_SORT_ORDER
        /\ last = [op |-> "constructor", leaderboardOptions |-> options,
                   redisOptions |-> redis,
                   out |-> IF constructed THEN Constructed ELSE Thrown]
    /\ zset = <<>>
    /\ tx = NoTx
    /\ ranked = {}
    /\ torn = FALSE

\* set pageSize(value)
SetPageSize(value) ==
    /\ constructed
    /\ pageSize' = value
    /\ last' = Observed([op |-> "setPageSize", value |-> value])
    /\ UNCHANGED <<constructed, zset, sortOrder, tx, ranked, torn>>

DeleteLeaderboard ==
    \E fail \in BOOLEAN :
        /\ constructed
        /\ zset' = IF fail THEN zset ELSE Del(zset)
        /\ last' = Observed([op |-> "deleteLeaderboard", failed |-> fail,
                              before |-> Cardinality(ranked),
                              out |-> deleteLeaderboard(zset, fail)])
        /\ ranked' = IF fail THEN ranked ELSE {}
        /\ torn' = (torn \/ (~fail /\ Partial(tx)))
        /\ UNCHANGED <<constructed, pageSize, sortOrder, tx>>

RankMember(m, s) ==
    \E fail \in BOOLEAN :
        /\ constructed
        /\ zset' = IF fail THEN zset ELSE ZAdd(zset, s, m)
        /\ last' = Observed([op |-> "rankMember", member |-> m, score |-> s, failed |-> fail,
                              out |-> rankMember(zset, m, s, fail)])
        /\ ranked' = IF fail THEN ranked
                     ELSE {e \in ranked : e.member # m} \cup {Entry(m, s)}
        /\ torn' = (torn \/ (~fail /\ Partial(tx)))
        /\ UNCHANGED <<constructed, pageSize, sortOrder, tx>>

RemoveMemember(m) ==
    \E fail \in BOOLEAN :
        /\ constructed
        /\ zset' = IF fail THEN zset ELSE ZRem(zset, m)
        /\ last' = Observed([op |-> "removeMemember", member |-> m, failed |-> fail,
                              out |-> removeMemember(zset, m, fail)])
        /\ ranked' = IF fail THEN ranked ELSE {e \in ranked : e.member # m}
        /\ torn' = (torn \/ (~fail /\ Partial(tx)))
        /\ UNCHANGED <<constructed, pageSize, sortOrder, tx>>

MemberCount ==
    \E fail \in BOOLEAN :
        /\ constructed
        /\ tx.op = "none"
        /\ last' = [op |-> "memberCount", failed |-> fail, out |-> memberCount(zset, fail)]
        /\ UNCHANGED <<constructed, zset, pageSize, sortOrder, tx, ranked, torn>>

MemberCountInRange(min, max) ==
    \E fail \in BOOLEAN :
        /\ constructed
        /\ tx.op = "none"
        /\ last' = [op |-> "memberCountInRange", min |-> min, max |-> max, failed |-> fail,
                    out |-> memberCountInRange(zset, min, max, fail)]
        /\ UNCHANGED <<constructed, zset, pageSize, sortOrder, tx, ranked, torn>>

PageCount(param) ==
    \E fail \in BOOLEAN :
        /\ constructed
        /\ tx.op = "none"
        /\ last' = [op |-> "pageCount", param |-> param, failed |-> fail,
                    out |-> pageCount(zset, param, pageSize, fail)]
        /\ UNCHANGED <<constructed, zset, pageSize, sortOrder, tx, ranked, torn>>

GetRankFor(m) ==
    \E fail \in BOOLEAN :
        /\ constructed
        /\ tx.op = "none"
        /\ last' = [op |-> "getRankFor", member |-> m, failed |-> fail,
                    out |-> getRankFor(zset, sortOrder, m, fail)]
        /\ UNCHANGED <<constructed, zset, pageSize, sortOrder, tx, ranked, torn>>

GetScoreFor(m) ==
    \E fail \in BOOLEAN :
        /\ constructed
        /\ tx.op = "none"
        /\ last' = [op |-> "getScoreFor", member |-> m, failed |-> fail,
                    out |-> getScoreFor(zset, m, fail)]
        /\ UNCHANGED <<constructed, zset, pageSize, sortOrder, tx, ranked, torn>>

\* getRankWithScoreFor up to transaction.exec: the commands are queued
GetRankWithScoreFor(m) ==
    /\ constructed
    /\ tx.op = "none"
    /\ tx' = [op |-> "getRankWithScoreFor", member |-> m,
              queue |-> RankWithScoreQueue(sortOrder, m), replies |-> <<>>]
    /\ last' = NoCall
    /\ torn' = FALSE
    /\ UNCHANGED <<constructed, zset, pageSize, sortOrder, ranked>>

\* getPageFor up to transaction.exec: the page size is fixed, the command queued
GetPageFor(m, param) ==
    /\ constructed
    /\ tx.op = "none"
    /\ tx' = [op |-> "getPageFor", member |-> m, param |-> param,
              pageSize |-> EffectivePageSize(param, pageSize),
              queue |-> PageQueue(m), replies |-> <<>>]
    /\ last' = NoCall
    /\ torn' = FALSE
    /\ UNCHANGED <<constructed, zset, pageSize, sortOrder, ranked>>

GetTop(offset, count) ==
    /\ constructed
    /\ tx.op = "none"
    /\ last' = [op |-> "getTop", offset |-> offset, count |-> count, failed |-> FALSE,
                out |-> getTop(zset, offset, count)]
    /\ UNCHANGED <<constructed, zset, pageSize, sortOrder, tx, ranked, torn>>

\* the outcome of tx for exec's (error, replies)
Response(t, error, replies) ==
    IF t.op = "getPageFor"
    THEN [op |-> t.op, member |-> t.member, param |-> t.param,
          pageSize |-> t.pageSize, failed |-> ~LooseNull(error),
          out |-> PageResponse(error, replies, t.pageSize)]
    ELSE [op |-> t.op, member |-> t.member, failed |-> ~LooseNull(error),
          out |-> RankWithScoreResponse(error, replies)]

\* EXEC: the store runs the queued commands and exec's callback gets the replies
Exec ==
    /\ tx.op # "none"
    /\ \E fail \in BOOLEAN :
        IF fail
        THEN /\ tx' = NoTx
             /\ last' = Response(tx, StoreError, Undefined)
        ELSE LET k == BatchSize(tx.queue)
                 replies == tx.replies \o [i \in 1..k |-> Execute(zset, tx.queue[i])]
                 queue == SubSeq(tx.queue, k + 1, Len(tx.queue))
             IN IF queue = <<>>
                THEN /\ tx' = NoTx
                     /\ last' = Response(tx, Null, replies)
                ELSE /\ tx' = [tx EXCEPT !.queue = queue, !.replies = replies]
                     /\ last' = last
    /\ UNCHANGED <<constructed, zset, pageSize, sortOrder, ranked, torn>>

Next ==
    \/ \E v \in PageSizeValues : SetPageSize(v)
    \/ DeleteLeaderboard
    \/ \E m \in Members, s \in Scores : RankMember(m, s)
    \/ \E m \in Members : RemoveMemember(m)
    \/ MemberCount
    \/ \E min \in RangeBounds, max \in RangeBounds : MemberCountInRange(min, max)
    \/ \E p \in PageSizeParams : PageCount(p)
    \/ \E m \in Members : GetRankFor(m)
    \/ \E m \in Members : GetScoreFor(m)
    \/ \E m \in Members : GetRankWithScoreFor(m)
    \/ \E m \in Members, p \in PageSizeParams : GetPageFor(m, p)
    \/ \E offset \in TopOffsets, count \in TopCounts : GetTop(offset, count)
    \/ Exec

Spec == Init /\ [][Next]_vars

TypeOK ==
    /\ constructed \in BOOLEAN
    /\ IsSorted(zset)
    /\ pageSize \in Int
    /\ sortOrder \in {Ascending, Descending}

(***************************************************************************)
(* The properties.  They are stated over the history ranked, the map from  *)
(* members to scores that the calls made so far define, and over last, the *)
(* outcome of the call just answered on the present sorted set.            *)
(***************************************************************************)
\* the observed caller's last call was op and the store answered it without error
Answered(op) == last.op = op /\ ~last.failed

Present(m) == \E e \in ranked : e.member = m
EntryOf(m) == CHOOSE e \in ranked : e.member = m
MemberTotal == Cardinality({e.member : e \in ranked})

\* the 1-based position of present member m among all members in the order:
\* lowest score first when Ascending, highest score first when Descending
Position(order, m) ==
    1 + Cardinality({e \in ranked : IF order = Ascending THEN Before(e, EntryOf(m))
                                    ELSE Before(EntryOf(m), e)})

\* no two members share a score: every position is decided by the scores alone
NoTies == \A e \in ranked, f \in ranked : e.member # f.member => e.score # f.score

\* q is the ceiling of n / p, for p # 0: the least integer not below n / p
IsCeiling(q, n, p) == IF p > 0 THEN (q - 1) * p < n /\ n <= q * p
                      ELSE q * p <= n /\ n < (q - 1) * p

\* C1 (as claimed): getRankFor(m) of a present member m delivers m's 1-based
\* position in the configured sort order: lowest score first for Ascending,
\* highest score first for Descending.  Stated where no two members share a
\* score, so that the position does not rest on a tie-break.
C1_RankInConfiguredOrder ==
    (Answered("getRankFor") /\ Present(last.member) /\ NoTies)
        => last.out = Callback(Null, Num(Position(sortOrder, last.member)))

\* C2 (as claimed): the score and the rank getRankWithScoreFor(m) delivers are read
\* from one store state, no writer's step between the two reads, and for m present
\* in it the pair is what getRankFor(m) and getScoreFor(m) deliver on that state.
C2_RankWithScoreIsConsistentPair ==
    Answered("getRankWithScoreFor")
        => /\ ~torn
           /\ Present(last.member)
                => /\ last.out.kind = "callback"
                   /\ last.out.result.t = "object"
                   /\ Callback(Null, last.out.result.rank)
                        = getRankFor(zset, sortOrder, last.member, FALSE)
                   /\ Callback(Null, last.out.result.score)
                        = getScoreFor(zset, last.member, FALSE)

\* the two reads of getRankWithScoreFor are one step of the store: no transaction
\* is ever left with some of its commands run and some still queued
ExecIsAtomic == ~torn /\ ~Partial(tx)

\* C3: getScoreFor(m) delivers the score of the most recent rankMember(m, s) not
\* followed by removeMemember(m) or deleteLeaderboard(), and the sorted set never
\* holds two entries for one member.
C3_ScoreRoundTrip ==
    /\ \A e \in ranked : getScoreFor(zset, e.member, FALSE) = Callback(Null, Num(e.score))
    /\ \A m \in Members : Cardinality({i \in 1..Len(zset) : zset[i].member = m}) <= 1
    /\ (Answered("getScoreFor") /\ Present(last.member))
            => last.out = Callback(Null, Num(EntryOf(last.member).score))

\* getScoreFor has delivered the score of a member of a full leaderboard in which
\* two members share a score
C3_Witness ==
    /\ Answered("getScoreFor")
    /\ Present(last.member)
    /\ last.out.result = Num(20)
    /\ MemberTotal = 3
    /\ \E e \in ranked : e.member # last.member /\ e.score = 20

\* C4: memberCount() delivers the number of distinct members ranked and not
\* removed since; ranking a present member again leaves the count as it was.
C4_MemberCountIsDistinctMembers ==
    /\ memberCount(zset, FALSE) = Callback(Null, Num(MemberTotal))
    /\ Answered("memberCount") => last.out = Callback(Null, Num(MemberTotal))
    /\ (Answered("rankMember") /\ last.out.result = Num(0))
            => Len(zset) = MemberTotal

\* memberCount has delivered 2 for two members that share one score
C4_Witness ==
    /\ Answered("memberCount")
    /\ last.out.result = Num(2)
    /\ \E e \in ranked, f \in ranked : e.member # f.member /\ e.score = f.score

\* the page size a pageCount or getPageFor call just answered worked with
PageSizeOf(call) == IF call.param = Omitted THEN pageSize ELSE call.param.n

\* C5: for N members pageCount delivers ceil(N / p), p the page size passed or,
\* when none is passed, the configured one, wherever the quotient is defined
\* (p # 0): 0 for an empty leaderboard, 1 for N = p, 2 for N = p + 1.
C5_PageCountIsCeiling ==
    (Answered("pageCount") /\ PageSizeOf(last) # 0)
        => /\ last.out.kind = "callback"
           /\ last.out.error = Null
           /\ last.out.result.t = "number"
           /\ IsCeiling(last.out.result.n, MemberTotal, PageSizeOf(last))
           /\ MemberTotal = 0 => last.out.result.n = 0
           /\ (PageSizeOf(last) > 0 /\ MemberTotal = PageSizeOf(last))
                => last.out.result.n = 1
           /\ (PageSizeOf(last) > 0 /\ MemberTotal = PageSizeOf(last) + 1)
                => last.out.result.n = 2

\* pageCount() without a page size has delivered 2 for pageSize + 1 members
C5_Witness ==
    /\ Answered("pageCount")
    /\ last.param = Omitted
    /\ pageSize = 2
    /\ MemberTotal = pageSize + 1
    /\ last.out.result = Num(2)

\* C6 (as claimed): for a present member m and page size p > 0, under both sort
\* orders, getPageFor(m, p) delivers ceil(r / p), r being m's 1-based rank in the
\* configured sort order, which is the value getRankFor(m) delivers on that state.
C6_PageIsCeilingOfRank ==
    (/\ Answered("getPageFor")
     /\ Present(last.member)
     /\ NoTies
     /\ IsNum(last.pageSize)
     /\ last.pageSize.n > 0)
        => /\ last.out.kind = "callback"
           /\ last.out.result.t = "number"
           /\ IsCeiling(last.out.result.n, Position(sortOrder, last.member),
                        last.pageSize.n)
           /\ IsCeiling(last.out.result.n,
                        getRankFor(zset, sortOrder, last.member, FALSE).result.n,
                        last.pageSize.n)

\* C7: for a member not in the leaderboard getRankFor delivers a null rank and a
\* null error, under both sort orders.
C7_AbsentRankIsNull ==
    /\ \A m \in Members : \A order \in {Ascending, Descending} :
            ~Present(m) => getRankFor(zset, order, m, FALSE) = Callback(Null, Null)
    /\ (Answered("getRankFor") /\ ~Present(last.member))
            => last.out = Callback(Null, Null)

\* getRankFor has answered for a member that was removed from a leaderboard of
\* two others, sorted Descending
C7_Witness ==
    /\ Answered("getRankFor")
    /\ ~Present(last.member)
    /\ MemberTotal = 2
    /\ sortOrder = Descending
    /\ last.out.result = Null

\* C8 (as claimed): for a member not in the leaderboard getScoreFor delivers null
\* as its result, with a null error.
C8_AbsentScoreIsNull ==
    (Answered("getScoreFor") /\ ~Present(last.member))
        => last.out = Callback(Null, Null)

\* C9 (as claimed): for a member not in the leaderboard getRankWithScoreFor
\* delivers a null result, no error and no object carrying a numeric rank.
C9_AbsentRankWithScoreIsNull ==
    (Answered("getRankWithScoreFor") /\ ~Present(last.member))
        => last.out = Callback(Null, Null)

\* C10: for every page size p > 0 getPageFor delivers page 0 for a member not in
\* the leaderboard and a page of at least 1 for a present member.
C10_AbsentPageIsZero ==
    (Answered("getPageFor") /\ IsNum(last.pageSize) /\ last.pageSize.n > 0)
        => /\ last.out.kind = "callback"
           /\ last.out.error = Null
           /\ last.out.result.t = "number"
           /\ Present(last.member) => last.out.result.n >= 1
           /\ ~Present(last.member) => last.out.result.n = 0

\* getPageFor(m, 2) has delivered page 0 for an absent m while others are ranked
C10_Witness ==
    /\ Answered("getPageFor")
    /\ ~Present(last.member)
    /\ MemberTotal = 2
    /\ last.param = Num(2)
    /\ last.out = Callback(Null, Num(0))

\* a step in which the store runs removeMemember(m) for a present member m
Removes(m) == Present(m) /\ RemoveMemember(m) /\ ~Present(m)'

\* C11 (as claimed): after removeMemember(m) on a present member m, getRankFor(m)
\* and getScoreFor(m) both deliver null and memberCount() delivers exactly 1 less
\* than before the removal.
C11_RemovedMemberIsGone ==
    [][\A m \in Members :
         Removes(m) =>
            /\ getRankFor(zset', sortOrder', m, FALSE) = Callback(Null, Null)
            /\ getScoreFor(zset', m, FALSE) = Callback(Null, Null)
            /\ memberCount(zset', FALSE)
                 = Callback(Null, Num(memberCount(zset, FALSE).result.n - 1))]_vars

\* C12: deleteLeaderboard() removes every member in one step: memberCount() then
\* delivers 0 and every former member is absent; its result is 1 when the
\* leaderboard existed and 0, with no error, when it was already absent.
C12_DeleteRemovesAll ==
    Answered("deleteLeaderboard") =>
        /\ zset = <<>>
        /\ memberCount(zset, FALSE) = Callback(Null, Num(0))
        /\ \A m \in Members :
                /\ ~Has(zset, m)
                /\ getRankFor(zset, sortOrder, m, FALSE) = Callback(Null, Null)
        /\ last.out = Callback(Null, IF last.before > 0 THEN Num(1) ELSE Num(0))

\* deleteLeaderboard() has delivered 1 for a leaderboard of three members
C12_Witness ==
    /\ Answered("deleteLeaderboard")
    /\ last.before = 3
    /\ last.out = Callback(Null, Num(1))
    /\ zset = <<>>

\* the option is left out of the constructor's leaderboardOptions, or they are
Unspecified(options, field) == options.t = "undefined" \/ options[field].t = "undefined"

\* C13 (as claimed): the configured page size of an instance is greater than 0 in
\* every reachable state: a missing, zero or negative page size given at
\* construction is replaced by the default 50, and no later operation, the
\* pageSize setter included, leaves it at 0 or below.
C13_PageSizeIsPositive ==
    /\ constructed => pageSize > 0
    /\ (last.op = "constructor" /\ constructed
          /\ (\/ Unspecified(last.leaderboardOptions, "pageSize")
              \/ last.leaderboardOptions.pageSize.n <= 0))
            => pageSize = DEFAULT_PAGE_SIZE

\* C14 (as claimed): constructing with pageSize and/or sortOrder unspecified, the
\* options arguments omitted entirely included, succeeds and yields pageSize = 50
\* and sortOrder = Ascending; a sortOrder given as Ascending or Descending is kept.
C14_ConstructorDefaults ==
    last.op = "constructor" =>
        /\ last.out = Constructed
        /\ Unspecified(last.leaderboardOptions, "pageSize")
             => pageSize = DEFAULT_PAGE_SIZE
        /\ Unspecified(last.leaderboardOptions, "sortOrder")
             => sortOrder = Ascending
        /\ ~Unspecified(last.leaderboardOptions, "sortOrder")
             => sortOrder = last.leaderboardOptions.sortOrder.n

\* C15: when the store reports an error, getScoreFor and getRankWithScoreFor
\* deliver a null error and a null result: the store's error is not passed on.
C15_StoreErrorBecomesNull ==
    /\ \A m \in Members : getScoreFor(zset, m, TRUE) = Callback(Null, Null)
    /\ (last.op \in {"getScoreFor", "getRankWithScoreFor"} /\ last.failed)
            => last.out = Callback(Null, Null)

\* the store has answered getRankWithScoreFor of a present member with an error
C15_Witness ==
    /\ last.op = "getRankWithScoreFor"
    /\ last.failed
    /\ Present(last.member)
    /\ last.out = Callback(Null, Null)

\* the members and scores in the configured order, first position first
Ordered == [i \in 1..MemberTotal |->
                CHOOSE e \in ranked : Position(sortOrder, e.member) = i]

\* the window of count entries of Ordered that starts at the zero-based offset
TopWindow(offset, count) ==
    LET from == IF offset = Omitted THEN 0 ELSE offset.n
        to == IF from + count.n < MemberTotal THEN from + count.n ELSE MemberTotal
    IN [t |-> "array", items |-> SubSeq(Ordered, from + 1, to)]

\* C16 (as claimed): getTop(count) and getTop(offset, count) deliver the contiguous
\* window of (member, score) pairs that starts at the zero-based offset (0 when
\* omitted) and holds count entries, in the configured sort order.
C16_TopDeliversWindow ==
    last.op = "getTop"
        => last.out = Callback(Null, TopWindow(last.offset, last.count))

\* the 0-based index of present member m in ascending and in descending order
AscendingIndex(m) == Cardinality({e \in ranked : Before(e, EntryOf(m))})
DescendingIndex(m) == Cardinality({e \in ranked : Before(EntryOf(m), e)})

\* the index read by the primitive opposite to the configured sort order
OppositeIndex(m) == IF sortOrder = Descending THEN AscendingIndex(m)
                    ELSE DescendingIndex(m)

\* the replies of getRankWithScoreFor's transaction run on the present sorted set
RankWithScoreReplies(m) ==
    [i \in 1..2 |-> Execute(zset, RankWithScoreQueue(sortOrder, m)[i])]

\* C17: getRankFor and getRankWithScoreFor read the rank primitive opposite to the
\* configured sort order (Descending: zrank, Ascending: zrevrank) and deliver that
\* index plus 1, so for a present member both deliver the same rank.
C17_RankReadsOppositePrimitive ==
    /\ RankCommand(Descending) = "zrank"
    /\ RankCommand(Ascending) = "zrevrank"
    /\ (Answered("getRankFor") /\ Present(last.member))
            => last.out = Callback(Null, Num(OppositeIndex(last.member) + 1))
    /\ (Answered("getRankWithScoreFor") /\ Present(last.member))
            => last.out.result.rank = Num(OppositeIndex(last.member) + 1)
    /\ \A m \in Members :
            Present(m) =>
                getRankFor(zset, sortOrder, m, FALSE).result
                    = RankWithScoreResponse(Null, RankWithScoreReplies(m)).result.rank

\* getRankWithScoreFor has delivered rank 1 for the member of the highest score
\* of three, on an Ascending leaderboard
C17_Witness ==
    /\ Answered("getRankWithScoreFor")
    /\ Present(last.member)
    /\ sortOrder = Ascending
    /\ MemberTotal = 3
    /\ NoTies
    /\ AscendingIndex(last.member) = 2
    /\ last.out.result.rank = Num(1)

\* C18: rankMember, removeMemember and deleteLeaderboard are idempotent on the
\* store: run again, rankMember(m, s) leaves the sorted set as it is; a second
\* removeMemember(m), or one of a member never ranked, delivers 0 and leaves the
\* sorted set as it is; a second deleteLeaderboard() delivers 0 and changes nothing.
C18_WritesAreIdempotent ==
    /\ Answered("rankMember") => ZAdd(zset, last.score, last.member) = zset
    /\ Answered("removeMemember")
            => /\ ZRem(zset, last.member) = zset
               /\ removeMemember(zset, last.member, FALSE) = Callback(Null, Num(0))
    /\ \A m \in Members :
            ~Present(m) => /\ ZRem(zset, m) = zset
                           /\ removeMemember(zset, m, FALSE) = Callback(Null, Num(0))
    /\ Answered("deleteLeaderboard")
            => /\ Del(zset) = zset
               /\ deleteLeaderboard(zset, FALSE) = Callback(Null, Num(0))

\* removeMemember has delivered 0 for a member that is not among the two ranked
C18_Witness ==
    /\ Answered("removeMemember")
    /\ last.out = Callback(Null, Num(0))
    /\ MemberTotal = 2

\* C19 (as claimed): every call of a public operation invokes the caller's
\* callback, once, whether the store answers with a result or with an error; no
\* call is left without a response and none raises an exception instead.
C19_EveryCallCallsBack ==
    last.op \notin {"none", "constructor", "setPageSize"}
        => last.out.kind = "callback"

\* C20: for a present member m and a page size p >= 1, under both sort orders, the
\* page getPageFor(m, p) delivers lies between 1 and what pageCount(p) delivers
\* on the same state.
C20_PageWithinPageCount ==
    (Answered("getPageFor") /\ Present(last.member)
        /\ IsNum(last.pageSize) /\ last.pageSize.n >= 1)
        => LET pages == pageCount(zset, last.pageSize, pageSize, FALSE)
           IN /\ last.out.kind = "callback"
              /\ last.out.result.t = "number"
              /\ pages.result.t = "number"
              /\ 1 <= last.out.result.n
              /\ last.out.result.n <= pages.result.n

\* getPageFor(m, 2) has delivered the last page, 2, of a Descending leaderboard of
\* three members
C20_Witness ==
    /\ Answered("getPageFor")
    /\ Present(last.member)
    /\ sortOrder = Descending
    /\ last.pageSize = Num(2)
    /\ MemberTotal = 3
    /\ last.out.result = Num(2)
    /\ pageCount(zset, Num(2), pageSize, FALSE).result = Num(2)

=============================================================================
